---- MODULE Spec2Model ----
(***************************************************************************)
(* Model of `datadog-ci junit upload` (src/src/commands/junit/renderer.ts, *)
(* which holds the renderer and the upload command).                       *)
(*                                                                         *)
(* UploadJUnitXMLCommand.execute() hands the payloads to                   *)
(*   asyncPool(maxConcurrency, payloads, upload)          (tiny-async-pool)*)
(* and each upload is                                                      *)
(*   retry(attempt, {retries: 5, onRetry})                (async-retry)    *)
(* wrapped in the try/catch of uploadJUnitXML.                             *)
(*                                                                         *)
(* One action is one run of the event loop: the completion of an upload    *)
(* call, the expiry of a backoff timer, or one turn of the pool's loop,    *)
(* each with the promise reactions that follow from it.                    *)
(***************************************************************************)
EXTENDS Naturals, Integers, Sequences, FiniteSets, TLC

(* ------------------------------ bounds --------------------------------- *)

\* Largest batch (payloads.length) explored.
MaxPayloads == 3

\* Largest --max-concurrency explored (the code's default is 20).
MaxConcurrency == 2

\* Largest number of failed upload calls the intake answers with in one run.
MaxFailures == 6

\* Number of distinct file paths the candidate lists are drawn from.
MaxPaths == 2

\* Longest list of resolved candidate paths (jUnitXMLFiles) explored.
MaxFiles == 3

(* ------------------------- program constants --------------------------- *)

\* Variant of errorCodesNoRetry: 413 is left out.
errorCodesNoRetry_No413 == {400, 403}

\* Variant of errorCodesNoRetry: 400 is left out.
errorCodesNoRetry_No400 == {403, 413}

\* const errorCodesNoRetry = [400, 403, 413]
errorCodesNoRetry == {400, 403, 413}

\* Variant of errorCodesStopUpload: 403 is left out.
errorCodesStopUpload_No403 == {400}

\* const errorCodesStopUpload = [400, 403]
errorCodesStopUpload == {400, 403}

\* retry(..., {retries: 5})
retries == 5

\* Status codes the intake answers with in the model: the three the code
\* names and one it does not name (500, a server error).
Statuses == {400, 403, 413, 500}

\* An error thrown by api.uploadJUnitXML: an axios error carries `response`
\* with a status; any other error (connection refused, timeout, ...) has none.
NoResponse == [response |-> FALSE, status |-> 0]

HttpError(s) == [response |-> TRUE, status |-> s]

Errors == {HttpError(s) : s \in Statuses} \cup {NoResponse}

\* Value of the error slot of a payload no attempt of which has failed.
NoError == [response |-> FALSE, status |-> -1]

(* ------------------------------ renderer ------------------------------- *)

\* renderDryRunUpload(payload): `[DRYRUN] ` + renderUpload(payload)
renderDryRunUpload(p) == [line |-> "dryrun", xmlPath |-> p, attempt |-> 0, error |-> NoError]

\* renderRetriedUpload(payload, errorMessage, attempt)
renderRetriedUpload(p, e, n) == [line |-> "retry", xmlPath |-> p, attempt |-> n, error |-> e]

\* renderFailedUpload(payload, errorMessage)
renderFailedUpload(p, e) == [line |-> "failed", xmlPath |-> p, attempt |-> 0, error |-> e]

\* renderSuccessfulCommand(fileCount, duration): the count is all the model keeps.
renderSuccessfulCommand(fileCount) == fileCount

(* ------------------------------- state --------------------------------- *)

VARIABLES
    payloads,        \* execute: the Payload[] given to asyncPool (xmlPath of each)
    maxConcurrency,  \* this.maxConcurrency
    dryRun,          \* this.dryRun
    pc,              \* where execute/asyncPool stands:
                     \*   "start"  before getMatchingJUnitXMLFiles
                     \*   "loop"   inside asyncPool's for loop
                     \*   "race"   awaiting Promise.race(executing)
                     \*   "all"    awaiting Promise.all(ret)
                     \*   "done"   asyncPool resolved, summary written
                     \*   "failed" asyncPool rejected: execute throws
    next,            \* number of items the for loop has taken
    executing,       \* asyncPool's `executing`: uploads whose promise is not fulfilled
    state,           \* per payload: "pending", "attempting", "backoff",
                     \*              "success", "skip", "abort"
    attempt,         \* per payload: number of the current (or last) attempt
    lastError,       \* per payload: error of its last failed attempt
    apiCalls,        \* per payload: calls of api.uploadJUnitXML
    stdout,          \* per payload: lines written to context.stdout about it
    summary,         \* the renderSuccessfulCommand lines written (their fileCount)
    failures,        \* failed upload calls so far in this run
    xmlFiles,        \* the file system: path -> what the XML parser makes of the file
    jUnitXMLFiles,   \* getMatchingJUnitXMLFiles: the resolved candidate paths
    invalidLines,    \* the renderInvalidFile lines written to context.stdout
    tagSources,      \* git, CI, --tags and DD_TAGS tags, DD_ENV and --env
    spanTags         \* getMatchingJUnitXMLFiles: the spanTags of every payload

\* What getMatchingJUnitXMLFiles reads and writes; the uploads leave it alone.
matching == <<xmlFiles, jUnitXMLFiles, invalidLines, tagSources, spanTags>>

vars == <<payloads, maxConcurrency, dryRun, pc, next, executing, state, attempt,
          lastError, apiCalls, stdout, summary, failures, matching>>

Ids == 1..Len(payloads)

InFlight == {i \in Ids : state[i] \in {"attempting", "backoff"}}

Aborted == {i \in Ids : state[i] = "abort"}

Fulfilled == {i \in Ids : state[i] \in {"success", "skip"}}

(* ----------------------- uploadJUnitXML: decisions --------------------- *)

\* Variant of Rethrown: an error without a response is thrown again too.
Rethrown_NoResponseToo(error) == ~error.response \/ error.status \notin errorCodesNoRetry

\* Inner catch (lines 232-244): TRUE when the error is thrown again, so that
\* async-retry sees a failed attempt; FALSE when the attempt ends in bail(error).
Rethrown(error) == error.response /\ error.status \notin errorCodesNoRetry

\* Variant of AttemptsRemain: the retry budget is never used up.
AttemptsRemain_Unbounded(n) == n <= n

\* Variant of AttemptsRemain: one retry fewer.
AttemptsRemain_OffByOne(n) == n < retries

\* async-retry, onError of attempt n: op.retry(err) holds while n <= retries;
\* then onRetry(err, n) runs and a backoff timer is set. Otherwise the retry
\* promise rejects.
AttemptsRemain(n) == n <= retries

\* Variant of StopsUpload: only a status of errorCodesStopUpload is thrown to
\* the pool, an error without a response is not.
StopsUpload_StatusOnly(error) == error.response /\ error.status \in errorCodesStopUpload

\* Outer catch (lines 253-263): TRUE when the error is thrown to the pool,
\* FALSE when uploadJUnitXML just returns.
StopsUpload(error) == ~(error.response /\ error.status \notin errorCodesStopUpload)

\* Variant of AfterFailure: bail(error) does not end the retries (the attempt
\* function throws after it), so attempts go on while any remain.
AfterFailure_KeepsRetrying(error, n) ==
    IF AttemptsRemain(n) THEN "backoff"
    ELSE IF StopsUpload(error) THEN "abort"
    ELSE "skip"

\* The state a payload is in after attempt n failed with `error`.
AfterFailure(error, n) ==
    IF Rethrown(error) /\ AttemptsRemain(n) THEN "backoff"
    ELSE IF StopsUpload(error) THEN "abort"
    ELSE "skip"

\* Variant of FailureLines: a retry notice is written for every rethrown
\* error, the last one included.
FailureLines_NoticeAlways(p, error, n) ==
    IF Rethrown(error)
    THEN <<renderRetriedUpload(p, error, n)>>
    ELSE <<renderFailedUpload(p, error)>>

\* Variant of FailureLines: the notice carries the retries left, not the attempt.
FailureLines_RetriesLeft(p, error, n) ==
    IF Rethrown(error) /\ AttemptsRemain(n)
    THEN <<renderRetriedUpload(p, error, retries + 1 - n)>>
    ELSE <<renderFailedUpload(p, error)>>

\* The lines uploadJUnitXML writes when attempt n of payload p fails with `error`.
FailureLines(p, error, n) ==
    IF Rethrown(error) /\ AttemptsRemain(n)
    THEN <<renderRetriedUpload(p, error, n)>>
    ELSE <<renderFailedUpload(p, error)>>

\* The attempt function up to its first await (lines 226-231): under dryRun it
\* writes the dry-run line and calls nothing, otherwise it calls the api.
AttemptLines(p) == IF dryRun THEN <<renderDryRunUpload(p)>> ELSE <<>>

\* Variant of AttemptCalls: the api is called under dryRun too.
AttemptCalls_IgnoresDryRun == IF dryRun THEN 1 ELSE 1

\* The calls of api.uploadJUnitXML one run of the attempt function makes.
AttemptCalls == IF dryRun THEN 0 ELSE 1

(* ------------------------- execute: asyncPool -------------------------- *)

\* Variant of PoolFull: the comparison is off by one.
PoolFull_OffByOne(exe, limit) == Cardinality(exe) > limit

\* asyncPool: if (executing.length >= poolLimit) await Promise.race(executing)
PoolFull(exe, limit) == Cardinality(exe) >= limit

\* Variant of RaceOutcome: the pool waits for the upload started first.
RaceOutcome_Oldest(snapshot, st) ==
    IF \E i \in snapshot : st[i] = "abort" THEN "failed"
    ELSE IF \E i \in snapshot :
               /\ st[i] \in {"success", "skip"}
               /\ \A j \in snapshot : i <= j
         THEN "loop"
    ELSE "race"

\* Promise.race(snapshot) given the payload states st: rejected as soon as one
\* of its uploads threw, resolved as soon as one returned, pending otherwise.
RaceOutcome(snapshot, st) ==
    IF \E i \in snapshot : st[i] = "abort" THEN "failed"
    ELSE IF \E i \in snapshot : st[i] \in {"success", "skip"} THEN "loop"
    ELSE "race"

\* Variant of AllOutcome: rejections are ignored (Promise.allSettled).
AllOutcome_Settled(st) ==
    IF \A i \in DOMAIN st : st[i] \in {"success", "skip", "abort"} THEN "done"
    ELSE "all"

\* Promise.all(ret) given the payload states st.
AllOutcome(st) ==
    IF \E i \in DOMAIN st : st[i] = "abort" THEN "failed"
    ELSE IF \A i \in DOMAIN st : st[i] \in {"success", "skip"} THEN "done"
    ELSE "all"

\* execute, line 165: the count given to renderSuccessfulCommand.
fileCount == Len(payloads)

\* Variant of SummaryAfter: the summary is written when asyncPool rejects too
\* (as in a finally block).
SummaryAfter_OnFailureToo(newpc) ==
    IF newpc \in {"done", "failed"} /\ pc \notin {"done", "failed"}
    THEN Append(summary, renderSuccessfulCommand(fileCount))
    ELSE summary

\* execute, lines 164-165, run when asyncPool resolves.
SummaryAfter(newpc) ==
    IF newpc = "done" /\ pc # "done"
    THEN Append(summary, renderSuccessfulCommand(fileCount))
    ELSE summary

\* The reactions of the pool to the settling of payload i's promise, the
\* payload states being st afterwards.
PoolAfterSettle(i, st) ==
    CASE pc = "race" -> RaceOutcome(executing, st)
      [] pc = "all"  -> AllOutcome(st)
      [] OTHER       -> pc

(* --------------------------- validateXml -------------------------------- *)

\* What fast-xml-parser makes of the content of a file: malformed, with the
\* message of the parser, or well formed, with a root tag and a root element
\* that is empty (<testsuites/>, <testsuite></testsuite>) or not.
Roots == {"testsuites", "testsuite", "html"}

ParserMessages == {"Start tag expected.", "Invalid '[    \"testsuite\"]' found."}

Contents ==
    {[wellFormed |-> FALSE, root |-> "", empty |-> FALSE, msg |-> m] : m \in ParserMessages}
    \cup {[wellFormed |-> TRUE, root |-> r, empty |-> e, msg |-> ""] :
              r \in Roots, e \in BOOLEAN}

\* A report with test suites in it.
ValidFile == [wellFormed |-> TRUE, root |-> "testsuites", empty |-> FALSE, msg |-> ""]

\* xmlParser.validate(content): true, or {err: {msg}}.
XmlValidate(content) ==
    IF content.wellFormed THEN [valid |-> TRUE, msg |-> ""]
    ELSE [valid |-> FALSE, msg |-> content.msg]

\* xmlParser.parse(content): an object with the root tag as its one key; the
\* value of an empty element is the empty string.
XmlParse(content) == [tag \in {content.root} |-> IF content.empty THEN "" ELSE "object"]

\* JavaScript's !!json[key].
Truthy(json, key) == key \in DOMAIN json /\ json[key] # ""

\* The `undefined` validateXml returns for a file it accepts.
Undefined == "undefined"

\* validateXml (lines 81-93), given the content read from xmlFilePath.
validateXml(content) ==
    IF ~XmlValidate(content).valid THEN XmlValidate(content).msg
    ELSE IF ~Truthy(XmlParse(content), "testsuites") /\ ~Truthy(XmlParse(content), "testsuite")
         THEN "Neither <testsuites> nor <testsuite> are the root tag."
    ELSE Undefined

\* renderInvalidFile(xmlPath, errorMessage)
renderInvalidFile(p, m) == [line |-> "invalid", xmlPath |-> p, message |-> m]

(* --------------------- getMatchingJUnitXMLFiles ------------------------- *)

\* Variant of Unique: the list is taken as it is.
Unique_Keeps(list) == list

\* [...new Set(list)]: the first occurrence of each path, in order.
RECURSIVE Unique(_)
Unique(list) ==
    IF list = <<>> THEN <<>>
    ELSE LET front == Unique(SubSeq(list, 1, Len(list) - 1))
             last == list[Len(list)]
         IN IF \E k \in 1..Len(front) : front[k] = last THEN front ELSE Append(front, last)

\* if (validationErrorMessage): undefined and the empty string are falsy.
IsError(m) == m # Undefined /\ m # ""

\* Variant of ValidUniqueFiles: the filter keeps every file.
ValidUniqueFiles_KeepsAll(list, fs) == Unique(list)

\* validUniqueFiles (lines 203-212).
ValidUniqueFiles(list, fs) ==
    SelectSeq(Unique(list), LAMBDA p : ~IsError(validateXml(fs[p])))

\* The renderInvalidFile lines the filter writes, in order.
InvalidFileLines(list, fs) ==
    LET bad == SelectSeq(Unique(list), LAMBDA p : IsError(validateXml(fs[p])))
    IN [k \in 1..Len(bad) |-> renderInvalidFile(bad[k], validateXml(fs[bad[k]]))]

\* The keys tags are drawn from: `env` and one other.
TagKeys == {"env", "team"}

\* No tag from any source, neither DD_ENV nor --env.
NoTags == [git |-> <<>>, ci |-> <<>>, cli |-> <<>>, envVar |-> <<>>, ddEnv |-> "", cliEnv |-> ""]

\* {...a, ...b}
Spread(a, b) ==
    [key \in DOMAIN a \cup DOMAIN b |-> IF key \in DOMAIN b THEN b[key] ELSE a[key]]

\* execute, lines 147-149: config.env is DD_ENV, or --env when DD_ENV is not set.
ConfigEnv(src) == IF src.ddEnv = "" THEN src.cliEnv ELSE src.ddEnv

\* Line 200: ...(this.config.env ? {env: this.config.env} : {})
EnvTag(src) == IF ConfigEnv(src) # "" THEN [key \in {"env"} |-> ConfigEnv(src)] ELSE <<>>

\* Variant of MergeSpanTags: the --tags are spread after the DD_TAGS.
MergeSpanTags_CliLast(src) ==
    Spread(Spread(Spread(Spread(src.git, src.ci), src.envVar), src.cli), EnvTag(src))

\* spanTags (lines 195-201).
MergeSpanTags(src) ==
    Spread(Spread(Spread(Spread(src.git, src.ci), src.cli), src.envVar), EnvTag(src))

(* ------------------------------ actions -------------------------------- *)

Init ==
    /\ \E n \in 0..MaxPayloads : payloads = [i \in 1..n |-> i]
    /\ maxConcurrency \in 1..MaxConcurrency
    /\ dryRun \in BOOLEAN
    /\ pc = "loop"
    /\ next = 0
    /\ executing = {}
    /\ state = [i \in Ids |-> "pending"]
    /\ attempt = [i \in Ids |-> 0]
    /\ lastError = [i \in Ids |-> NoError]
    /\ apiCalls = [i \in Ids |-> 0]
    /\ stdout = [i \in Ids |-> <<>>]
    /\ summary = <<>>
    /\ failures = 0
    /\ jUnitXMLFiles = payloads
    /\ xmlFiles = [p \in 1..Len(payloads) |-> ValidFile]
    /\ invalidLines = <<>>
    /\ tagSources = NoTags
    /\ spanTags = MergeSpanTags(NoTags)

\* One turn of asyncPool's for loop: the next item is given to the iterator
\* (uploadJUnitXML starts its first attempt), its promise joins `executing`,
\* and the loop goes on or awaits the race.
PoolNext ==
    /\ pc = "loop"
    /\ next < Len(payloads)
    /\ LET i == next + 1
           exe == executing \cup {i}
           st == [state EXCEPT ![i] = "attempting"]
       IN /\ next' = i
          /\ executing' = exe
          /\ state' = st
          /\ attempt' = [attempt EXCEPT ![i] = 1]
          /\ apiCalls' = [apiCalls EXCEPT ![i] = @ + AttemptCalls]
          /\ stdout' = [stdout EXCEPT ![i] = @ \o AttemptLines(payloads[i])]
          /\ pc' = IF PoolFull(exe, maxConcurrency) THEN RaceOutcome(exe, st) ELSE "loop"
    /\ UNCHANGED <<payloads, maxConcurrency, dryRun, lastError, summary, failures>>
    /\ UNCHANGED matching

\* The for loop is over: return Promise.all(ret).
PoolReturn ==
    /\ pc = "loop"
    /\ next = Len(payloads)
    /\ pc' = AllOutcome(state)
    /\ summary' = SummaryAfter(pc')
    /\ UNCHANGED <<payloads, maxConcurrency, dryRun, next, executing, state, attempt,
                   lastError, apiCalls, stdout, failures>>
    /\ UNCHANGED matching

\* The attempt of payload i returns (the upload call succeeded, or dryRun):
\* retry resolves, uploadJUnitXML returns, the promise leaves `executing`.
AttemptReturns(i) ==
    /\ state[i] = "attempting"
    /\ state' = [state EXCEPT ![i] = "success"]
    /\ executing' = executing \ {i}
    /\ pc' = PoolAfterSettle(i, state')
    /\ summary' = SummaryAfter(pc')
    /\ UNCHANGED <<payloads, maxConcurrency, dryRun, next, attempt, lastError,
                   apiCalls, stdout, failures>>
    /\ UNCHANGED matching

\* The upload call of payload i throws `error`.
AttemptThrows(i, error) ==
    /\ state[i] = "attempting"
    /\ ~dryRun
    /\ failures < MaxFailures
    /\ failures' = failures + 1
    /\ lastError' = [lastError EXCEPT ![i] = error]
    /\ state' = [state EXCEPT ![i] = AfterFailure(error, attempt[i])]
    /\ stdout' = [stdout EXCEPT ![i] = @ \o FailureLines(payloads[i], error, attempt[i])]
    /\ executing' = IF state'[i] = "skip" THEN executing \ {i} ELSE executing
    /\ pc' = IF state'[i] = "backoff" THEN pc ELSE PoolAfterSettle(i, state')
    /\ summary' = SummaryAfter(pc')
    /\ UNCHANGED <<payloads, maxConcurrency, dryRun, next, attempt, apiCalls>>
    /\ UNCHANGED matching

\* The backoff timer of payload i fires: async-retry runs the next attempt.
BackoffEnds(i) ==
    /\ state[i] = "backoff"
    /\ state' = [state EXCEPT ![i] = "attempting"]
    /\ attempt' = [attempt EXCEPT ![i] = @ + 1]
    /\ apiCalls' = [apiCalls EXCEPT ![i] = @ + AttemptCalls]
    /\ stdout' = [stdout EXCEPT ![i] = @ \o AttemptLines(payloads[i])]
    /\ UNCHANGED <<payloads, maxConcurrency, dryRun, pc, next, executing, lastError,
                   summary, failures>>
    /\ UNCHANGED matching

\* Whatever happens next to the upload of payload i.
Upload(i) ==
    /\ i \in Ids
    /\ \/ AttemptReturns(i)
       \/ \E error \in Errors : AttemptThrows(i, error)
       \/ BackoffEnds(i)

Next ==
    \/ PoolNext
    \/ PoolReturn
    \/ \E i \in Ids : AttemptReturns(i)
    \/ \E i \in Ids : \E error \in Errors : AttemptThrows(i, error)
    \/ \E i \in Ids : BackoffEnds(i)

Spec == Init /\ [][Next]_vars

\* The event loop runs every reaction that is ready, every upload call ends
\* and every backoff timer fires.
FairSpec ==
    /\ Spec
    /\ WF_vars(PoolNext)
    /\ WF_vars(PoolReturn)
    /\ \A i \in 1..MaxPayloads : WF_vars(Upload(i))

\* execute, lines 147-157: config.env is settled and getMatchingJUnitXMLFiles
\* builds the payloads: the candidates are deduplicated and validated, an
\* invalid-file line is written for each rejected file, the tags are merged.
GetMatchingJUnitXMLFiles ==
    /\ pc = "start"
    /\ spanTags' = MergeSpanTags(tagSources)
    /\ invalidLines' = invalidLines \o InvalidFileLines(jUnitXMLFiles, xmlFiles)
    /\ payloads' = ValidUniqueFiles(jUnitXMLFiles, xmlFiles)
    /\ state' = [i \in 1..Len(payloads') |-> "pending"]
    /\ attempt' = [i \in 1..Len(payloads') |-> 0]
    /\ lastError' = [i \in 1..Len(payloads') |-> NoError]
    /\ apiCalls' = [i \in 1..Len(payloads') |-> 0]
    /\ stdout' = [i \in 1..Len(payloads') |-> <<>>]
    /\ pc' = "loop"
    /\ UNCHANGED <<maxConcurrency, dryRun, next, executing, summary, failures,
                   xmlFiles, jUnitXMLFiles, tagSources>>

\* The command before getMatchingJUnitXMLFiles, its inputs left open.
BeforeMatching ==
    /\ pc = "start"
    /\ payloads = <<>>
    /\ next = 0
    /\ executing = {}
    /\ state = <<>>
    /\ attempt = <<>>
    /\ lastError = <<>>
    /\ apiCalls = <<>>
    /\ stdout = <<>>
    /\ summary = <<>>
    /\ failures = 0
    /\ invalidLines = <<>>
    /\ spanTags = <<>>

\* The lists of at most n paths among 1..MaxPaths.
PathLists(n) == UNION {[1..k -> 1..MaxPaths] : k \in 0..n}

\* The contents the files of a batch are drawn from: a valid report, a
\* malformed file and a file with another root.
BatchContents ==
    {c \in Contents : c = ValidFile \/ c.msg = "Start tag expected."
                                    \/ (c.root = "html" /\ ~c.empty)}

\* Any candidate list, with repetitions, over files valid or not.
InitFiles ==
    /\ BeforeMatching
    /\ jUnitXMLFiles \in PathLists(MaxFiles)
    /\ xmlFiles \in [1..MaxPaths -> BatchContents]
    /\ tagSources = NoTags
    /\ maxConcurrency = MaxConcurrency
    /\ dryRun \in BOOLEAN

\* The tags of a source: any keys of TagKeys, the source named in the value.
TagsOf(source) == UNION {[keys -> {source}] : keys \in SUBSET TagKeys}

\* One valid file, any tags from any sources.
InitTags ==
    /\ BeforeMatching
    /\ jUnitXMLFiles = <<1>>
    /\ xmlFiles = [p \in {1} |-> ValidFile]
    /\ \E g \in TagsOf("git"), c \in TagsOf("ci"), t \in TagsOf("cli"), v \in TagsOf("envVar") :
          \E d \in {"", "DD_ENV"}, e \in {"", "--env"} :
              tagSources = [git |-> g, ci |-> c, cli |-> t, envVar |-> v,
                            ddEnv |-> d, cliEnv |-> e]
    /\ maxConcurrency \in 1..MaxConcurrency
    /\ dryRun \in BOOLEAN

\* One candidate file of any content.
InitXml ==
    /\ BeforeMatching
    /\ jUnitXMLFiles = <<1>>
    /\ xmlFiles \in [{1} -> Contents]
    /\ tagSources = NoTags
    /\ maxConcurrency \in 1..MaxConcurrency
    /\ dryRun \in BOOLEAN

\* execute from getMatchingJUnitXMLFiles on.
NextFiles ==
    \/ GetMatchingJUnitXMLFiles
    \/ PoolNext
    \/ PoolReturn
    \/ \E i \in Ids : AttemptReturns(i)
    \/ \E i \in Ids : \E error \in Errors : AttemptThrows(i, error)
    \/ \E i \in Ids : BackoffEnds(i)

SpecFiles == InitFiles /\ [][NextFiles]_vars

SpecTags == InitTags /\ [][NextFiles]_vars

SpecXml == InitXml /\ [][NextFiles]_vars

TypeOK ==
    /\ pc \in {"start", "loop", "race", "all", "done", "failed"}
    /\ next \in 0..Len(payloads)
    /\ executing \subseteq Ids
    /\ \A i \in Ids : state[i] \in {"pending", "attempting", "backoff", "success", "skip", "abort"}
    /\ \A i \in Ids : attempt[i] \in 0..(retries + 1)
    /\ executing = InFlight \cup Aborted

(* ------------------------------- claims -------------------------------- *)

\* The failed line and the retry notice the code writes for payload i.
FailedLine(i, error) == [line |-> "failed", xmlPath |-> payloads[i], attempt |-> 0, error |-> error]

RetryLine(i, error, n) == [line |-> "retry", xmlPath |-> payloads[i], attempt |-> n, error |-> error]

DryRunLine(i) == [line |-> "dryrun", xmlPath |-> payloads[i], attempt |-> 0, error |-> NoError]

\* In this step the running attempt of payload i fails with `error`.
Fails(i, error) ==
    /\ state[i] = "attempting"
    /\ state'[i] \in {"backoff", "skip", "abort"}
    /\ lastError'[i] = error

\* In this step payload i is handed to uploadJUnitXML.
Starts(i) == state[i] = "pending" /\ state'[i] # "pending"

\* C1: at no point of a batch run, whatever the batch size and the
\* maxConcurrency >= 1, are more than maxConcurrency payloads in flight
\* (started, not yet at a terminal outcome, backoff included).
C1_ConcurrencyCap == Cardinality(InFlight) <= maxConcurrency

\* C1 witness: the pool is saturated with work left, one upload sleeping in backoff.
C1_Witness ==
    /\ maxConcurrency >= 2
    /\ Cardinality(InFlight) = maxConcurrency
    /\ next < Len(payloads)
    /\ \E i \in InFlight : state[i] = "backoff"
    /\ \E i \in InFlight : state[i] = "attempting"

\* C2 (as claimed): when the batch completes, the count of the summary line is
\* the number of payloads that ended in success; skipped uploads are left out.
C2_CountIsSuccesses ==
    pc = "done" => summary = <<Cardinality({i \in Ids : state[i] = "success"})>>

\* C3 (as claimed): an attempt that fails without a status code, attempts
\* remaining, is followed by a retry notice and a backoff, not by termination.
C3_NoStatusRetried ==
    [][\A i \in Ids :
          (Fails(i, NoResponse) /\ attempt[i] <= retries)
              => /\ state'[i] = "backoff"
                 /\ stdout'[i] = Append(stdout[i], RetryLine(i, NoResponse, attempt[i]))]_vars

\* C3 (amended): an attempt that fails without a status code is never retried,
\* whatever attempts remain: the payload terminates at that attempt, the
\* failed-upload line is written and no retry notice.
C3_NoStatusBails ==
    [][\A i \in Ids :
          Fails(i, NoResponse)
              => /\ state'[i] \in {"skip", "abort"}
                 /\ attempt'[i] = attempt[i]
                 /\ stdout'[i] = Append(stdout[i], FailedLine(i, NoResponse))]_vars

\* C3 witness: a second attempt failed without a status and the payload ended there.
C3_Witness ==
    \E i \in Ids :
        /\ lastError[i] = NoResponse
        /\ attempt[i] = 2
        /\ state[i] \in {"skip", "abort"}
        /\ stdout[i][Len(stdout[i])] = FailedLine(i, NoResponse)

\* Some payload ended with a batch-fatal status (400 or 403).
FatalStatus(i) ==
    /\ state[i] = "abort"
    /\ lastError[i] \in {HttpError(400), HttpError(403)}

\* C4: a payload whose first attempt fails with 403 (or 400) gets no second
\* attempt and ends as Abort, the batch then never completes and ends in the
\* fatal error, and once the pool has seen the abort no payload is started.
C4_FatalStatusStops ==
    /\ [][\A i \in Ids : \A s \in {400, 403} :
             (Fails(i, HttpError(s)) /\ attempt[i] = 1)
                 => /\ state'[i] = "abort"
                    /\ stdout'[i] = Append(stdout[i], FailedLine(i, HttpError(s)))]_vars
    /\ [][\A i \in Ids :
             state[i] = "abort"
                 => /\ state'[i] = "abort"
                    /\ attempt'[i] = attempt[i]
                    /\ apiCalls'[i] = apiCalls[i]]_vars
    /\ []((\E i \in Ids : FatalStatus(i)) => (pc \in {"loop", "failed"} /\ summary = <<>>))
    /\ [][pc = "failed" => (pc' = "failed" /\ \A i \in Ids : ~Starts(i))]_vars
    /\ (\E i \in Ids : FatalStatus(i) /\ attempt[i] = 1) ~> (pc = "failed")

\* C4 witness: a first attempt ended in 403, the pool has failed, one payload
\* was never started and another is still in flight.
C4_Witness ==
    /\ pc = "failed"
    /\ \E i \in Ids : FatalStatus(i) /\ lastError[i].status = 403 /\ attempt[i] = 1 /\ apiCalls[i] = 1
    /\ \E j \in Ids : state[j] = "pending"
    /\ InFlight # {}

\* C5: a payload whose upload fails with 413 is not retried and ends as Skip
\* (failed-upload line written, nothing thrown to the pool); it never makes
\* the batch fail: the pool fails only after an abort, which a 413 never is,
\* and a batch without abort completes.
C5_TooLargeSkips ==
    /\ [][\A i \in Ids :
             Fails(i, HttpError(413))
                 => /\ state'[i] = "skip"
                    /\ attempt'[i] = attempt[i]
                    /\ stdout'[i] = Append(stdout[i], FailedLine(i, HttpError(413)))
                    /\ i \notin executing'
                    /\ (pc' = "failed" => pc = "failed")]_vars
    /\ [](pc = "failed" => \E j \in Ids : state[j] = "abort" /\ lastError[j] # HttpError(413))
    /\ [](pc = "done" => \A j \in Ids : state[j] \in {"success", "skip"})
    /\ <>(pc = "done" \/ Aborted # {})

\* C5 witness: the batch completed, one payload skipped on a 413 at its first
\* attempt and a payload started after it succeeded.
C5_Witness ==
    /\ pc = "done"
    /\ \E i, j \in Ids :
          /\ i < j
          /\ state[i] = "skip" /\ lastError[i] = HttpError(413) /\ attempt[i] = 1
          /\ state[j] = "success"

\* C6: a payload all of whose attempts fail with 500 makes exactly 6 attempts
\* (5 retry notices, numbered 1..5), then ends as Skip with one failed-upload
\* line; it is not thrown to the pool.
C6_ServerErrorSixAttempts ==
    \A i \in Ids :
        /\ (state[i] \in {"skip", "abort"} /\ lastError[i] = HttpError(500))
              => /\ state[i] = "skip"
                 /\ attempt[i] = 6
                 /\ apiCalls[i] = 6
                 /\ stdout[i] = [k \in 1..6 |->
                                   IF k <= 5 THEN RetryLine(i, HttpError(500), k)
                                             ELSE FailedLine(i, HttpError(500))]
                 /\ i \notin executing
        /\ (state[i] = "backoff")
              => /\ lastError[i] = HttpError(500)
                 /\ attempt[i] <= 5
                 /\ apiCalls[i] = attempt[i]

\* C6 witness: the sixth attempt of a payload failed with 500, the batch completed.
C6_Witness ==
    /\ pc = "done"
    /\ \E i \in Ids : state[i] = "skip" /\ lastError[i] = HttpError(500) /\ attempt[i] = 6

\* C7 (as claimed): only a terminal failure with status 400 or 403 is thrown
\* to the pool; a failure without any status is absorbed as a Skip.
C7_OnlyFatalStatusThrown ==
    /\ \A i \in Ids : state[i] = "abort" => lastError[i] \in {HttpError(400), HttpError(403)}
    /\ pc = "failed" => \E i \in Ids : FatalStatus(i)

\* C7 (amended): the batch ends with a fatal error only if some payload's
\* terminal failure carried status 400 or 403 or carried no status at all;
\* a terminal failure with status 413, or with the retry budget exhausted on
\* a retryable status, is absorbed as a Skip and not thrown to the pool.
C7_ThrownIffFatalOrNoStatus ==
    /\ \A i \in Ids :
          /\ state[i] = "abort"
                => lastError[i] \in {HttpError(400), HttpError(403), NoResponse}
          /\ state[i] = "skip"
                => /\ \/ lastError[i] = HttpError(413)
                      \/ /\ lastError[i].response
                         /\ lastError[i].status \notin {400, 403, 413}
                         /\ attempt[i] = 6
                   /\ i \notin executing
          /\ (state[i] \in {"skip", "abort"})
                => stdout[i][Len(stdout[i])] = FailedLine(i, lastError[i])
    /\ pc = "failed" => Aborted # {}

\* C7 witness: the batch failed on an error without status met by a retried
\* upload, and only on it, while a 413 was absorbed.
C7_Witness ==
    /\ pc = "failed"
    /\ \E i \in Ids : state[i] = "abort" /\ lastError[i] = NoResponse /\ attempt[i] > 1
    /\ \E i \in Ids : state[i] = "skip" /\ lastError[i] = HttpError(413)
    /\ \A i \in Ids : ~FatalStatus(i)

\* C8: once a payload has ended with a batch-fatal status, the batch never
\* reports completion and, in every interleaving, ends by propagating the
\* fatal error.
C8_FatalAlwaysPropagates ==
    /\ []((\E i \in Ids : FatalStatus(i)) => (pc # "done" /\ summary = <<>>))
    /\ (\E i \in Ids : FatalStatus(i)) ~> [](pc = "failed" /\ summary = <<>>)

\* C8 witness: two uploads ended with fatal statuses and the batch failed
\* while a third went on to succeed.
C8_Witness ==
    /\ pc = "failed"
    /\ \E i, j, k \in Ids :
          /\ FatalStatus(i) /\ lastError[i].status = 400
          /\ FatalStatus(j) /\ lastError[j].status = 403
          /\ state[k] = "success"

\* C9: under dryRun the api is never called, no payload fails, is retried,
\* skipped or aborted, a started payload has made one attempt and has exactly
\* one dry-run line, the batch never fails, it completes, and the count of
\* the summary is the number of payloads, all of them successes.
C9_DryRun ==
    /\ [](dryRun =>
            /\ \A i \in Ids :
                  /\ apiCalls[i] = 0
                  /\ state[i] \in {"pending", "attempting", "success"}
                  /\ state[i] = "pending" => (attempt[i] = 0 /\ stdout[i] = <<>>)
                  /\ state[i] # "pending" => (attempt[i] = 1 /\ stdout[i] = <<DryRunLine(i)>>)
            /\ pc # "failed"
            /\ pc = "done" => /\ summary = <<Len(payloads)>>
                              /\ \A i \in Ids : state[i] = "success")
    /\ dryRun => <>(pc = "done")

\* C9 witness: a dry run of a full-size batch that completed.
C9_Witness ==
    /\ dryRun
    /\ pc = "done"
    /\ Len(payloads) = MaxPayloads
    /\ maxConcurrency < Len(payloads)
    /\ summary = <<MaxPayloads>>

\* A slot is free, work is left and nothing was thrown to the pool.
SlotFree ==
    /\ Cardinality(InFlight) < maxConcurrency
    /\ next < Len(payloads)
    /\ Aborted = {}

\* C10: the pool conserves work. While a slot is free, work is left and no
\* payload aborted, the pool is in its loop and the next payload is
\* eventually started; a payload that ends as Success or as Skip frees its
\* slot, whichever of the uploads in flight it is.
C10_WorkConserving ==
    /\ [](SlotFree => pc = "loop")
    /\ [][\A i \in Ids :
             (pc = "race" /\ state[i] \in {"attempting", "backoff"}
                          /\ state'[i] \in {"success", "skip"})
                 => (pc' = "loop" /\ i \notin executing')]_vars
    /\ \A k \in 0..MaxPayloads :
          (SlotFree /\ next = k) ~> (next > k \/ Aborted # {})

\* C10 witness: with two slots, the second upload was skipped while the first
\* is still in flight, and the third payload was started in the freed slot.
C10_Witness ==
    /\ maxConcurrency = 2
    /\ Len(payloads) >= 3
    /\ state[1] \in {"attempting", "backoff"}
    /\ state[2] = "skip"
    /\ state[3] \in {"attempting", "backoff"}

\* The retry notices among the lines written about payload i, in the order written.
RetryNotices(i) == SelectSeq(stdout[i], LAMBDA l : l.line = "retry")

\* C14: the retry notices of one payload carry the attempt numbers 1, 2, 3, ...
\* in the order they are written, each naming that payload, whatever the
\* other payloads write in between.
C14_RetryNoticesInOrder ==
    \A i \in Ids :
        \A k \in 1..Len(RetryNotices(i)) :
            /\ RetryNotices(i)[k].attempt = k
            /\ RetryNotices(i)[k].xmlPath = payloads[i]

\* C14 witness: two payloads are retried side by side, one three times.
C14_Witness ==
    \E i, j \in Ids :
        /\ i # j
        /\ Len(RetryNotices(i)) = 3
        /\ Len(RetryNotices(j)) = 2
        /\ state[i] = "backoff"
        /\ state[j] = "attempting"

\* C16: whatever came before, an attempt n in 1..6 that fails with 400, 403
\* or 413 ends the payload at that attempt: no attempt n+1, no retry notice
\* for n, the failed-upload line instead; Abort for 400 and 403, Skip for 413.
C16_NoRetryStatusesTerminate ==
    [][\A i \in Ids : \A s \in {400, 403, 413} :
          Fails(i, HttpError(s))
              => /\ attempt[i] \in 1..6
                 /\ state'[i] = (IF s = 413 THEN "skip" ELSE "abort")
                 /\ attempt'[i] = attempt[i]
                 /\ apiCalls'[i] = apiCalls[i]
                 /\ stdout'[i] = Append(stdout[i], FailedLine(i, HttpError(s)))
                 /\ RetryNotices(i)' = RetryNotices(i)]_vars

\* C16 witness: after two retried failures a third attempt failed with 400
\* and the payload ended there, as Abort, with two retry notices.
C16_Witness ==
    \E i \in Ids :
        /\ state[i] = "abort"
        /\ lastError[i] = HttpError(400)
        /\ attempt[i] = 3
        /\ apiCalls[i] = 3
        /\ Len(RetryNotices(i)) = 2

\* C17: no payload makes more than 6 attempts, a terminal outcome (Success,
\* Skip or Abort) is never left for another, and when every reaction runs,
\* every upload call ends and every timer fires, the run reaches for good a
\* state where no started payload is still in flight and the batch has
\* either reported completion or propagated a fatal error.
C17_Termination ==
    /\ [](\A i \in Ids : attempt[i] <= 6 /\ apiCalls[i] <= 6)
    /\ [][\A i \in Ids :
             state[i] \in {"success", "skip", "abort"} => state'[i] = state[i]]_vars
    /\ <>[](InFlight = {} /\ pc \in {"done", "failed"})

\* C17 witness: the batch has failed, every started payload is at a terminal
\* outcome, one of them a success at its fourth attempt, and one payload was
\* never started.
C17_Witness ==
    /\ pc = "failed"
    /\ InFlight = {}
    /\ \E i \in Ids : state[i] = "success" /\ attempt[i] = 4
    /\ \E i \in Ids : state[i] = "abort"
    /\ \E i \in Ids : state[i] = "pending"

\* C18: the summary line is written at most once, only when every payload of
\* the batch is at Success or Skip, and never in a run whose pool rejected:
\* a failed batch has no summary and stays failed, a completed one stays so.
C18_SummaryOnce ==
    /\ [](Len(summary) <= 1)
    /\ [](summary # <<>> => (pc = "done" /\ \A i \in Ids : state[i] \in {"success", "skip"}))
    /\ [](pc = "failed" => summary = <<>>)
    /\ [](pc = "done" => Len(summary) = 1)
    /\ [][(pc = "done" \/ pc = "failed") => (pc' = pc /\ summary' = summary)]_vars

\* C18 witness: the summary was written once, after a success and a skip.
C18_Witness ==
    /\ Len(summary) = 1
    /\ \E i \in Ids : state[i] = "success"
    /\ \E i \in Ids : state[i] = "skip"
    /\ Len(payloads) = MaxPayloads

\* The outcome of payload i is settled: it succeeded, or its failed-upload
\* line has been written.
Settled(i) ==
    \/ state[i] \in {"success", "skip", "abort"}
    \/ \E k \in 1..Len(stdout[i]) : stdout[i][k].line = "failed"

\* C19: a payload is handed to uploadJUnitXML at most once (it is started
\* from pending only, with no attempt made, and never becomes pending
\* again), attempts are made one at a time, and once its outcome is settled
\* (Success, Skip or Abort) nothing more happens to it: no attempt, no upload
\* call, no line.
C19_NoAttemptAfterOutcome ==
    [][\A i \in Ids :
          /\ Settled(i)
                => /\ state'[i] = state[i]
                   /\ attempt'[i] = attempt[i]
                   /\ apiCalls'[i] = apiCalls[i]
                   /\ stdout'[i] = stdout[i]
          /\ Starts(i)
                => /\ attempt[i] = 0 /\ apiCalls[i] = 0 /\ stdout[i] = <<>>
                   /\ attempt'[i] = 1
                   /\ i = next + 1
          /\ state[i] # "pending" => state'[i] # "pending"
          /\ attempt'[i] # attempt[i]
                => /\ attempt'[i] = attempt[i] + 1
                   /\ state[i] \in {"pending", "backoff"}
          /\ apiCalls'[i] # apiCalls[i]
                => /\ apiCalls'[i] = apiCalls[i] + 1
                   /\ attempt'[i] = attempt[i] + 1]_vars

\* C19 witness: a payload succeeded at its second attempt and the run went on
\* with other payloads still in flight and others settled as Skip and Abort.
C19_Witness ==
    \E i, j, k \in Ids :
        /\ state[i] = "success" /\ attempt[i] = 2 /\ apiCalls[i] = 2
        /\ state[j] = "abort"
        /\ state[k] \in {"attempting", "backoff"}

\* The failed-upload lines among the lines written about payload i.
FailedLines(i) == SelectSeq(stdout[i], LAMBDA l : l.line = "failed")

\* C20: a payload that ended as Skip or Abort has exactly one failed-upload
\* line, any other payload none; a payload at its k-th attempt, or ended
\* after k attempts, has k-1 retry notices, and one waiting in backoff after
\* attempt k, whose next attempt is to follow, has k.
C20_SinkAccounting ==
    \A i \in Ids :
        /\ Len(FailedLines(i)) = (IF state[i] \in {"skip", "abort"} THEN 1 ELSE 0)
        /\ state[i] \in {"skip", "abort"}
              => stdout[i][Len(stdout[i])] = FailedLine(i, lastError[i])
        /\ state[i] = "pending" => stdout[i] = <<>>
        /\ state[i] = "backoff" => Len(RetryNotices(i)) = attempt[i]
        /\ state[i] \in {"attempting", "success", "skip", "abort"}
              => Len(RetryNotices(i)) = attempt[i] - 1
        /\ ~dryRun => Len(stdout[i]) = Len(RetryNotices(i)) + Len(FailedLines(i))

\* C20 witness: one payload skipped after six attempts (five notices, one
\* failed line) beside one that succeeded at once and wrote nothing.
C20_Witness ==
    \E i, j \in Ids :
        /\ state[i] = "skip" /\ attempt[i] = 6
        /\ Len(RetryNotices(i)) = 5 /\ Len(FailedLines(i)) = 1
        /\ state[j] = "success" /\ attempt[j] = 1 /\ stdout[j] = <<>>


(* --------------------- claims on getMatchingJUnitXMLFiles --------------- *)

\* The paths of a list.
Paths(list) == {list[k] : k \in 1..Len(list)}

\* The candidates that fail validation.
Rejected == {p \in Paths(jUnitXMLFiles) : IsError(validateXml(xmlFiles[p]))}

\* C11: once getMatchingJUnitXMLFiles has run, the payloads are exactly the
\* distinct candidate paths that pass validation: no path is a payload twice,
\* no rejected path is a payload or is ever uploaded, and each rejected path
\* has its one invalid-file line.
C11_PayloadsAreValidDistinct ==
    pc # "start" =>
        /\ Paths(payloads) = Paths(jUnitXMLFiles) \ Rejected
        /\ \A i, j \in Ids : payloads[i] = payloads[j] => i = j
        /\ \A i \in Ids : apiCalls[i] > 0 => payloads[i] \notin Rejected
        /\ {l.xmlPath : l \in Paths(invalidLines)} = Rejected
        /\ Len(invalidLines) = Cardinality(Rejected)

\* A candidate list with a repeated valid path and a rejected path, the
\* valid one uploaded.
C11_Witness ==
    /\ Len(jUnitXMLFiles) > Cardinality(Paths(jUnitXMLFiles))
    /\ Rejected # {}
    /\ \E i \in Ids : apiCalls[i] > 0 /\ state[i] = "success"
                      /\ \E k, l \in 1..Len(jUnitXMLFiles) :
                            k # l /\ jUnitXMLFiles[k] = payloads[i]
                                  /\ jUnitXMLFiles[l] = payloads[i]

\* No candidate passes validation: there is none, or all are rejected.
NothingToUpload == Paths(jUnitXMLFiles) \subseteq Rejected

\* C12: when there is no candidate or every candidate is rejected, the command
\* makes no upload attempt, does not fail, and ends with a summary of 0 files.
C12_EmptyBatchSucceeds ==
    NothingToUpload =>
        /\ pc \in {"start", "loop", "done"}
        /\ pc # "start" => payloads = <<>> /\ apiCalls = <<>> /\ stdout = <<>>
        /\ pc = "loop" => ENABLED PoolReturn
        /\ pc = "done" => summary = <<renderSuccessfulCommand(0)>>
        /\ pc # "done" => summary = <<>>

\* Every candidate was rejected and the command has ended.
C12_Witness ==
    /\ jUnitXMLFiles # <<>>
    /\ NothingToUpload
    /\ Len(invalidLines) = MaxPaths
    /\ pc = "done"

\* The sources of a tag key from the one that wins to the one that loses; the
\* explicit environment stands for the key `env` only, and only when set.
Precedence(key) ==
    (IF key = "env" /\ ConfigEnv(tagSources) # ""
        THEN <<[key2 \in {"env"} |-> ConfigEnv(tagSources)]>> ELSE <<>>)
    \o <<tagSources.envVar, tagSources.cli, tagSources.ci, tagSources.git>>

\* C13: the span tags of the payloads hold, for each key, the value of the
\* first source that has the key in the order: explicit environment, tag list
\* of the environment variable, command-line tags, CI tags, version-control
\* tags; a key of no source is absent.
C13_TagPrecedence ==
    pc # "start" =>
        \A key \in TagKeys \cup DOMAIN spanTags :
            LET having == {k \in 1..Len(Precedence(key)) : key \in DOMAIN Precedence(key)[k]}
            IN IF having = {} THEN key \notin DOMAIN spanTags
               ELSE /\ key \in DOMAIN spanTags
                    /\ \E k \in having :
                          /\ \A k2 \in having : k <= k2
                          /\ spanTags[key] = Precedence(key)[k][key]

\* Every source has both keys and the environment is explicit: `env` is the
\* explicit one, the other key comes from the environment variable's list.
C13_Witness ==
    /\ pc = "done"
    /\ \A source \in {"git", "ci", "cli", "envVar"} : DOMAIN tagSources[source] = TagKeys
    /\ tagSources.ddEnv = "" /\ tagSources.cliEnv # ""
    /\ spanTags["env"] = tagSources.cliEnv
    /\ spanTags["team"] = "envVar"

\* C15: a file is accepted exactly when it is well formed and its root is
\* <testsuites> or <testsuite>, an empty root element included; a malformed
\* file is rejected with the parser's message, another root with the fixed one.
C15_AcceptsIffRoot ==
    pc # "start" =>
        LET content == xmlFiles[1]
            accepted == content.wellFormed /\ content.root \in {"testsuites", "testsuite"}
        IN /\ accepted <=> payloads = <<1>>
           /\ accepted => invalidLines = <<>>
           /\ ~content.wellFormed => invalidLines = <<renderInvalidFile(1, content.msg)>>
           /\ content.wellFormed /\ ~accepted =>
                 invalidLines = <<renderInvalidFile(1,
                                    "Neither <testsuites> nor <testsuite> are the root tag.")>>

====
